---- MODULE Spec2Model ----
(***************************************************************************)
(* A model of src/registry.rs: the process-global MetricsRegistry.         *)
(*                                                                         *)
(* The registry owns a metrics_util Registry (three maps, key -> shared    *)
(* cell, one per MetricKind) and a RwLock<HashMap> of descriptions.  The   *)
(* calls of registry.rs are the actions below.  The storage primitives of  *)
(* the crates the file calls into (the insert-or-fetch of the maps, the    *)
(* atomic add of a counter cell, the push and the clear of an atomic       *)
(* bucket, the fuzzy matcher) are not in the repository; they are the      *)
(* operators whose comment says "storage contract", written from           *)
(* sections 4.2, 4.5, 4.6 and 5 of the specification.                      *)
(***************************************************************************)
EXTENDS Integers, Sequences, FiniteSets, TLC

\* ------------------------------------------------------------------ bounds

\* Storage cells constructed in one run (registrations of new identities).
MaxCells == 3
\* Descriptions stored in one run.
MaxDescriptions == 2
\* Histogram samples recorded in one run.
MaxSamples == 2
\* Upper limit of the total a counter cell is driven to.
MaxCount == 2
\* The same limit where counters are incremented by ScenarioAmounts.
MaxTotal == 8
\* Largest n_duplicates handed to MetricKey::title.
MaxDuplicates == 11

\* ---------------------------------------------------------------- universe

\* MetricKind of metrics_util.
Kinds == {"Counter", "Gauge", "Histogram"}

\* Metric names are strings: sequences of characters.
Name1 == <<"a", "b">>
Name2 == <<"b", "a", "b">>
Names == {Name1, Name2}

\* Label sets: ordered sequences of (key, value) pairs.
LabelsA == << <<"route", "/a">> >>
LabelsB == << <<"route", "/b">> >>

\* metrics::Key: a name and its labels.  KeyA and KeyB are two label-set
\* variants of one name.
KeyA == [name |-> Name1, labels |-> LabelsA]
KeyB == [name |-> Name1, labels |-> LabelsB]
KeyC == [name |-> Name2, labels |-> LabelsA]
Keys == {KeyA, KeyB, KeyC}

\* Option<T>: None is the empty set, Some(x) the singleton.
None == {}
Some(x) == {x}

\* MetricDescription { unit: Option<Unit>, text }.
MetricDescriptions ==
  { [unit |-> Some("Count"), text |-> "first"],
    [unit |-> None, text |-> "second"] }

\* Amounts handed to Counter::increment and values handed to Gauge::set.
Amounts == {1, 2}
GaugeValues == {1, 2}

\* The amounts of the scenario of two labelled counters (spec 8).
ScenarioAmounts == {5, 3}

\* Query strings handed to fuzzy_search_by_name: the empty one, a prefix, a
\* whole name, scattered characters of a name, and characters of no name.
Queries == {<<>>, <<"a">>, <<"a", "b">>, <<"b", "b">>, <<"a", "a">>}

\* Display paths handed to MetricKey::title: none, or a string.
DisplayPaths == {None, Some(<<"p">>), Some(<<"p", ":", "a", "b">>)}

\* ------------------------------------------------------------------- state

VARIABLES
  registry,      \* Inner.registry: kind -> (key -> index of the cell the map holds)
  descriptions,  \* Inner.descriptions: DescriptionKey -> MetricDescription
  atomics,       \* the AtomicU64 cells of counters and gauges: cell -> value
  buckets,       \* the AtomicBucket cells of histograms: cell -> samples
  handles,       \* the cells of the handles issued so far (Arc clones)
  inflight,      \* Histogram::record calls that loaded the bucket and have not written
  clearing,      \* the clear_atomic_buckets call in progress, if any
  ret,           \* the registry call that returned last, if no step other than
                 \* the begin of an append was taken since, and what it returned
  history,       \* what the calls did so far (ghost, read by the properties only)
  lock,          \* the RwLock around Inner.descriptions: who holds it
  describing,    \* the add_description_if_missing call in progress, if any
  searching      \* the all_metrics / fuzzy_search_by_name call in progress, if any

vars == <<registry, descriptions, atomics, buckets, handles, inflight, clearing, ret,
          history, lock, describing, searching>>

\* A storage cell: the idx-th cell constructed for (kind, key).
Cell(kind, key, idx) == [kind |-> kind, key |-> key, idx |-> idx]

\* Cells constructed so far.
Cells == DOMAIN atomics \cup DOMAIN buckets
CellsOf(kind, key) == {c \in Cells : c.kind = kind /\ c.key = key}

\* Extend or overwrite one point of a function whose domain varies.
Put(f, k, v) == [x \in DOMAIN f \cup {k} |-> IF x = k THEN v ELSE f[x]]

\* The cell the map of `kind` holds for `key` (the key must be registered).
StoredCell(kind, key) == Cell(kind, key, registry[kind][key])

\* MetricKey::new and the derive(PartialEq): a key and its kind.
MetricKey(key, kind) == [kind |-> kind, key |-> key]

\* ret when no registry call is the last thing that happened: at the start,
\* after an operation on a handle, and while a clear is at work.
NoCall == [op |-> "none"]

\* clearing when no clear_atomic_buckets call is in progress.  Of a call in
\* progress: the histograms registered when it began, those it has passed,
\* the samples that landed in a bucket it had passed, and whether it follows
\* a call that returned with no append begun or landed since.
NotClearing ==
  [active |-> FALSE, visited |-> {}, snapshot |-> {}, after |-> {}, follows |-> FALSE]

\* The RwLock around the descriptions: held by one writer, or by readers.
Unlocked == [writer |-> FALSE, readers |-> 0]

\* searching when no all_metrics / fuzzy_search_by_name call is in progress.
NotSearching == [active |-> FALSE]

\* -------------------------------------------------------------------- init

\* MetricsRegistry::new: Registry::atomic() and an empty description map.
Init ==
  /\ registry = [k \in Kinds |-> <<>>]
  /\ descriptions = <<>>
  /\ atomics = <<>>
  /\ buckets = <<>>
  /\ handles = {}
  /\ inflight = {}
  /\ clearing = NotClearing
  /\ ret = NoCall
  /\ history = [sum |-> [k \in Keys |-> 0],       \* amounts incremented, per key
                increments |-> [k \in Keys |-> 0], \* increment calls, per key
                set |-> [k \in Keys |-> 0],       \* value last set on a gauge, per key
                recorded |-> {},                   \* record calls that returned
                discarded |-> {},                  \* samples a clear took out of a bucket
                overtaken |-> {},                  \* samples in flight when their bucket was cleared
                stale |-> {},                      \* samples written to a detached buffer
                registered |-> {},                 \* identities a registration call named
                described |-> <<>>]                \* per DescriptionKey, what the first describe call gave
  /\ lock = Unlocked
  /\ describing = None
  /\ searching = NotSearching

\* ------------------------------------------------------- storage: the maps

\* Storage contract (spec 4.2), Registry::get_or_create_<kind>: the existing
\* cell if the key is present; otherwise one atomic insert of a newly
\* constructed zero-valued cell.  Leaves the cell the map holds for the key.
Registry_get_or_create(kind, key) ==
  IF key \in DOMAIN registry[kind]
  THEN UNCHANGED <<registry, atomics, buckets>>
  ELSE /\ Cardinality(Cells) < MaxCells
       /\ LET c == Cell(kind, key, Cardinality(CellsOf(kind, key))) IN
            /\ registry' = [registry EXCEPT ![kind] = Put(@, key, c.idx)]
            /\ IF kind = "Histogram"
               THEN buckets' = Put(buckets, c, <<>>) /\ UNCHANGED atomics
               ELSE atomics' = Put(atomics, c, 0) /\ UNCHANGED buckets

\* A plausible slip: the handle wraps a cell of its own, constructed on the
\* spot, and the map is never consulted.
FreshCellHandle(kind, key, op) ==
  /\ Cardinality(Cells) < MaxCells
  /\ LET c == Cell(kind, key, Cardinality(CellsOf(kind, key))) IN
       /\ IF kind = "Histogram"
          THEN buckets' = Put(buckets, c, <<>>) /\ UNCHANGED atomics
          ELSE atomics' = Put(atomics, c, 0) /\ UNCHANGED buckets
       /\ handles' = handles \cup {c}
       /\ ret' = [op |-> op, handle |-> c]
  /\ history' = [history EXCEPT !.registered = @ \cup {MetricKey(key, kind)}]
  /\ UNCHANGED <<registry, descriptions, inflight, clearing, lock, describing, searching>>

\* The closure handed to get_or_create_<kind>: Arc::clone (lines 61, 65, 69)
\* and |c| c.clone().into() (lines 313, 319, 325).  Both clone the Arc: the
\* handle shares the stored cell.
HandleTo(kind, key, op) ==
  /\ Registry_get_or_create(kind, key)
  /\ LET c == Cell(kind, key, registry'[kind][key]) IN
       /\ handles' = handles \cup {c}
       /\ ret' = [op |-> op, handle |-> c]
  /\ history' = [history EXCEPT !.registered = @ \cup {MetricKey(key, kind)}]
  /\ UNCHANGED <<descriptions, inflight, clearing, lock, describing, searching>>

\* get_or_create_counter as it would be if it took the description lock
\* for the lookup.
get_or_create_counter_locked(key) ==
  /\ lock = Unlocked
  /\ HandleTo("Counter", key, "get_or_create")

\* MetricsRegistry::get_or_create_counter / _gauge / _histogram.
get_or_create_counter(key) == HandleTo("Counter", key, "get_or_create")
get_or_create_gauge(key) == HandleTo("Gauge", key, "get_or_create")
get_or_create_histogram(key) == HandleTo("Histogram", key, "get_or_create")

\* register_counter as it would be if it wrapped a cell of its own.
register_counter_unshared(key) == FreshCellHandle("Counter", key, "register")

\* register_histogram as it would be if it wrapped a bucket of its own.
register_histogram_unshared(key) == FreshCellHandle("Histogram", key, "register")

\* register_gauge as it would be if it went to the map of the counters.
register_gauge_as_counter(key) ==
  /\ Registry_get_or_create("Counter", key)
  /\ LET c == Cell("Counter", key, registry'["Counter"][key]) IN
       /\ handles' = handles \cup {c}
       /\ ret' = [op |-> "register", handle |-> c]
  /\ history' = [history EXCEPT !.registered = @ \cup {MetricKey(key, "Gauge")}]
  /\ UNCHANGED <<descriptions, inflight, clearing, lock, describing, searching>>

\* Recorder::register_counter / _gauge / _histogram (the metadata is unused).
register_counter(key) == HandleTo("Counter", key, "register")
register_gauge(key) == HandleTo("Gauge", key, "register")
register_histogram(key) == HandleTo("Histogram", key, "register")

\* ------------------------------------------------------------------ titles

\* crate::metric_kind_str: the string of a kind, one token of the title.
metric_kind_str(kind) == <<kind>>

\* format!("{n_duplicates}") of a usize: its decimal digits.
Digits == <<"0", "1", "2", "3", "4", "5", "6", "7", "8", "9">>
RECURSIVE Decimal(_)
Decimal(n) ==
  IF n < 10 THEN <<Digits[n + 1]>>
  ELSE Decimal(n \div 10) \o <<Digits[(n % 10) + 1]>>

\* A title that always shows the counter, also when it is zero.
title_with_zero(mkey, display_path, n_duplicates) ==
  LET name == IF display_path # None
              THEN CHOOSE path \in display_path : TRUE
              ELSE mkey.key.name
  IN name \o <<" ", "(">> \o metric_kind_str(mkey.kind) \o <<")", " ">>
       \o Decimal(n_duplicates)

\* MetricKey::title(&self, display_path, n_duplicates).
title(mkey, display_path, n_duplicates) ==
  LET name == IF display_path # None
              THEN CHOOSE path \in display_path : TRUE
              ELSE mkey.key.name
  IN IF n_duplicates > 0
     THEN name \o <<" ", "(">> \o metric_kind_str(mkey.kind) \o <<")", " ">>
            \o Decimal(n_duplicates)
     ELSE name \o <<" ", "(">> \o metric_kind_str(mkey.kind) \o <<")">>

\* A call of MetricKey::title, as a step that returns.
call_title(mkey, display_path, n_duplicates) ==
  /\ ret' = [key |-> mkey, op |-> "title", display_path |-> display_path,
             n_duplicates |-> n_duplicates,
             value |-> title(mkey, display_path, n_duplicates)]
  /\ UNCHANGED <<registry, descriptions, atomics, buckets, handles, inflight, clearing,
                 history, lock, describing, searching>>

\* ------------------------------------------------------------ descriptions

\* DescriptionKey { name, kind }.
DescriptionKey(name, kind) == [name |-> name, kind |-> kind]
DescriptionKeys == {DescriptionKey(n, k) : n \in Names, k \in Kinds}

\* A derivation that keeps the labels in the name.
DescriptionKeyWithLabels(mkey) ==
  DescriptionKey(<<mkey.key.name, mkey.key.labels>>, mkey.kind)

\* impl From<&MetricKey> for DescriptionKey: the name and the kind; the
\* labels are dropped.
DescriptionKeyFrom(mkey) == DescriptionKey(mkey.key.name, mkey.kind)

\* HashMap::insert in the place of entry().or_insert(): the last writer wins.
Overwrite(map, key, description) == Put(map, key, description)

\* HashMap::entry(key).or_insert(description), under the write lock.
OrInsert(map, key, description) ==
  IF key \in DOMAIN map THEN map ELSE Put(map, key, description)

\* What the describe calls asked for, whatever else was called in between:
\* per key, the description of the first call.
Described(key, description) ==
  [history EXCEPT !.described =
     IF key \in DOMAIN @ THEN @ ELSE Put(@, key, description)]

\* A describe that depends on the registrations made before it: the
\* description is stored only if a metric of that name and kind is registered.
add_description_if_registered(key, description) ==
  /\ lock = Unlocked
  /\ key \in DOMAIN descriptions \/ Cardinality(DOMAIN descriptions) < MaxDescriptions
  /\ descriptions' =
       IF \E k \in DOMAIN registry[key.kind] : k.name = key.name
       THEN OrInsert(descriptions, key, description) ELSE descriptions
  /\ ret' = [key |-> key, op |-> "describe", description |-> description]
  /\ history' = Described(key, description)
  /\ UNCHANGED <<registry, atomics, buckets, handles, inflight, clearing, lock, describing, searching>>

\* MetricsRegistry::add_description_if_missing, as one step: the write lock
\* is taken when nobody holds the lock, and released on return.
add_description_if_missing(key, description) ==
  /\ lock = Unlocked
  /\ key \in DOMAIN descriptions \/ Cardinality(DOMAIN descriptions) < MaxDescriptions
  /\ descriptions' = OrInsert(descriptions, key, description)
  /\ ret' = [key |-> key, op |-> "describe", description |-> description]
  /\ history' = Described(key, description)
  /\ UNCHANGED <<registry, atomics, buckets, handles, inflight, clearing, lock, describing, searching>>

\* A describe_counter that describes the name under every kind.
describe_counter_any_kind(name, description) ==
  /\ lock = Unlocked
  /\ descriptions' =
       OrInsert(OrInsert(OrInsert(descriptions,
                                  DescriptionKey(name, "Counter"), description),
                         DescriptionKey(name, "Gauge"), description),
                DescriptionKey(name, "Histogram"), description)
  /\ ret' = [key |-> DescriptionKey(name, "Counter"), op |-> "describe",
             description |-> description]
  /\ history' = Described(DescriptionKey(name, "Counter"), description)
  /\ UNCHANGED <<registry, atomics, buckets, handles, inflight, clearing, lock, describing, searching>>

\* Recorder::describe_counter / _gauge / _histogram.
describe_counter(name, description) ==
  add_description_if_missing(DescriptionKey(name, "Counter"), description)
describe_gauge(name, description) ==
  add_description_if_missing(DescriptionKey(name, "Gauge"), description)
describe_histogram(name, description) ==
  add_description_if_missing(DescriptionKey(name, "Histogram"), description)

\* MetricsRegistry::get_description: the stored description, cloned.
get_description(key) ==
  IF key \in DOMAIN descriptions THEN Some(descriptions[key]) ELSE None

\* ------------------------------------------------- handles: counter, gauge

HandlesOf(kind) == {h \in handles : h.kind = kind}

\* Storage contract (spec 5), Counter::increment on an AtomicU64 cell: one
\* atomic read-modify-write.
CounterIncrement(h, amount) ==
  /\ h \in HandlesOf("Counter")
  /\ atomics' = [atomics EXCEPT ![h] = @ + amount]
  /\ history' = [history EXCEPT !.sum[h.key] = @ + amount,
                                !.increments[h.key] = @ + 1]
  /\ ret' = NoCall
  /\ UNCHANGED <<registry, descriptions, buckets, handles, inflight, clearing, lock, describing, searching>>

\* Storage contract (spec 3, GaugeCell), Gauge::set: one atomic store.
GaugeSet(h, value) ==
  /\ h \in HandlesOf("Gauge")
  /\ atomics' = [atomics EXCEPT ![h] = value]
  /\ history' = [history EXCEPT !.set[h.key] = value]
  /\ ret' = NoCall
  /\ UNCHANGED <<registry, descriptions, buckets, handles, inflight, clearing, lock, describing, searching>>

\* ------------------------------------------------------ handles: histogram

\* Sample ids handed out so far: each record call is one sample.
SamplesBegun == {r.id : r \in inflight} \cup {r.id : r \in history.recorded}

\* The samples a bucket holds, as a set.
Held(cell) == {buckets[cell][i] : i \in 1..Len(buckets[cell])}

\* Storage contract (spec 5, 4.6), Histogram::record, first half: the append
\* loads the bucket's current buffer.
HistogramRecordBegin(h) ==
  /\ h \in HandlesOf("Histogram")
  /\ Cardinality(SamplesBegun) < MaxSamples
  /\ inflight' = inflight \cup
       {[stale |-> FALSE, id |-> Cardinality(SamplesBegun) + 1, cell |-> h]}
  /\ clearing' = [clearing EXCEPT !.follows = FALSE]
  /\ UNCHANGED <<registry, descriptions, atomics, buckets, handles, ret, history, lock, describing, searching>>

\* Storage contract (spec 5, 4.6), Histogram::record, second half: the sample
\* is written to the buffer that was loaded.  A buffer a clear has detached
\* in between is gone with that clear, and the sample with it.  While a
\* clear_atomic_buckets call is running, it is noted which samples land in a
\* bucket the call has already emptied.
HistogramRecordLand(r) ==
  /\ r \in inflight
  /\ inflight' = inflight \ {r}
  /\ buckets' = IF r.stale THEN buckets
                ELSE [buckets EXCEPT ![r.cell] = Append(@, r.id)]
  /\ history' = [history EXCEPT
       !.recorded = @ \cup {[id |-> r.id, cell |-> r.cell]},
       !.stale = IF r.stale THEN @ \cup {r.id} ELSE @]
  /\ clearing' = IF clearing.active /\ ~r.stale /\ r.cell.key \in clearing.visited
                    /\ r.cell = StoredCell("Histogram", r.cell.key)
                 THEN [clearing EXCEPT !.after = @ \cup {r.id}, !.follows = FALSE]
                 ELSE [clearing EXCEPT !.follows = FALSE]
  /\ ret' = NoCall
  /\ UNCHANGED <<registry, descriptions, atomics, handles, lock, describing, searching>>

\* ------------------------------------------------------------------- clear

\* Storage contract (spec 4.2, 5), AtomicBucket::clear: one atomic swap
\* detaches the buffer; its samples are discarded, and an append that had
\* loaded it writes into the detached buffer.
AtomicBucket_clear(cell) ==
  /\ buckets' = [buckets EXCEPT ![cell] = <<>>]
  /\ inflight' = {IF r.cell = cell THEN [r EXCEPT !.stale = TRUE] ELSE r : r \in inflight}
  /\ history' = [history EXCEPT
       !.discarded = @ \cup Held(cell),
       !.overtaken = @ \cup {r.id : r \in {x \in inflight : x.cell = cell}}]

\* MetricsRegistry::clear_atomic_buckets, the call: visit_histograms starts
\* over the histograms registered now.
clear_atomic_buckets_call ==
  /\ ~clearing.active
  /\ clearing' = [NotClearing EXCEPT
       !.active = TRUE,
       !.snapshot = DOMAIN registry["Histogram"],
       !.follows = (ret.op = "clear_atomic_buckets" /\ inflight = {})]
  /\ ret' = NoCall
  /\ UNCHANGED <<registry, descriptions, atomics, buckets, handles, inflight, history, lock, describing, searching>>

\* The closure without its h.clear(): the entry is passed over.
clear_atomic_buckets_visit_skip(key) ==
  /\ clearing.active
  /\ key \in DOMAIN registry["Histogram"] \ clearing.visited
  /\ clearing' = [clearing EXCEPT !.visited = @ \cup {key}]
  /\ ret' = NoCall
  /\ UNCHANGED <<registry, descriptions, atomics, buckets, handles, inflight, history, lock, describing, searching>>

\* A clear that empties a histogram by dropping its entry from the map.
clear_atomic_buckets_visit_remove(key) ==
  /\ clearing.active
  /\ key \in DOMAIN registry["Histogram"] \ clearing.visited
  /\ AtomicBucket_clear(StoredCell("Histogram", key))
  /\ registry' = [registry EXCEPT !["Histogram"] =
                    [k \in DOMAIN @ \ {key} |-> @[k]]]
  /\ clearing' = [clearing EXCEPT !.visited = @ \cup {key}]
  /\ ret' = NoCall
  /\ UNCHANGED <<descriptions, atomics, handles, lock, describing, searching>>

\* A clear that takes the oldest sample out of the bucket and leaves the
\* others.
clear_atomic_buckets_visit_pop(key) ==
  /\ clearing.active
  /\ key \in DOMAIN registry["Histogram"] \ clearing.visited
  /\ LET cell == StoredCell("Histogram", key) IN
       /\ buckets' = [buckets EXCEPT ![cell] = IF @ = <<>> THEN @ ELSE Tail(@)]
       /\ history' = [history EXCEPT
            !.discarded = IF buckets[cell] = <<>> THEN @
                          ELSE @ \cup {Head(buckets[cell])}]
  /\ clearing' = [clearing EXCEPT !.visited = @ \cup {key}]
  /\ ret' = NoCall
  /\ UNCHANGED <<registry, descriptions, atomics, handles, inflight, lock, describing, searching>>

\* MetricsRegistry::clear_atomic_buckets, the closure |_, h| h.clear() on one
\* entry of the histogram map.  An entry inserted during the traversal may be
\* visited too.
clear_atomic_buckets_visit(key) ==
  /\ clearing.active
  /\ key \in DOMAIN registry["Histogram"] \ clearing.visited
  /\ AtomicBucket_clear(StoredCell("Histogram", key))
  /\ clearing' = [clearing EXCEPT !.visited = @ \cup {key}]
  /\ ret' = NoCall
  /\ UNCHANGED <<registry, descriptions, atomics, handles, lock, describing, searching>>

\* MetricsRegistry::clear_atomic_buckets returns once the traversal has
\* passed every entry that was there when it began.
clear_atomic_buckets_return ==
  /\ clearing.active
  /\ clearing.snapshot \subseteq clearing.visited
  /\ clearing' = NotClearing
  /\ ret' = [op |-> "clear_atomic_buckets", visited |-> clearing.visited,
             snapshot |-> clearing.snapshot, after |-> clearing.after]
  /\ UNCHANGED <<registry, descriptions, atomics, buckets, handles, inflight, history, lock, describing, searching>>

\* ------------------------------------------------------------------ search

\* A result that keeps the name of the key and drops its labels.
make_search_result_unlabelled(kind, key, descs) ==
  LET mkey == MetricKey([name |-> key.name, labels |-> <<>>], kind)
      desc_key == DescriptionKeyFrom(mkey)
  IN [key |-> mkey,
      description |-> IF desc_key \in DOMAIN descs THEN Some(descs[desc_key]) ELSE None]

\* SearchResult { key: MetricKey, description: Option<MetricDescription> }.
\* make_search_result: the key with its kind, joined with the description
\* stored under the DescriptionKey derived from it.
make_search_result(kind, key, descs) ==
  LET mkey == MetricKey(key, kind)
      desc_key == DescriptionKeyFrom(mkey)
  IN [key |-> mkey,
      description |-> IF desc_key \in DOMAIN descs THEN Some(descs[desc_key]) ELSE None]

\* Storage contract (spec 4.2), Registry::visit_<kind>: every entry of the
\* map once, in an order the map chooses.
RECURSIVE InSomeOrder(_)
InSomeOrder(S) ==
  IF S = {} THEN <<>>
  ELSE LET k == CHOOSE x \in S : TRUE IN <<k>> \o InSomeOrder(S \ {k})
Registry_visit(kind) == InSomeOrder(DOMAIN registry[kind])

\* Matcher contract (spec 4.5), SkimMatcherV2::fuzzy_match(choice, pattern):
\* Some(score) when the pattern's characters occur in the choice in order,
\* not necessarily side by side; None otherwise.  The score is not used.
RECURSIVE IsSubsequence(_, _)
IsSubsequence(pattern, choice) ==
  IF Len(pattern) = 0 THEN TRUE
  ELSE IF Len(choice) = 0 THEN FALSE
  ELSE IF Head(pattern) = Head(choice)
       THEN IsSubsequence(Tail(pattern), Tail(choice))
       ELSE IsSubsequence(pattern, Tail(choice))
fuzzy_match(choice, pattern) ==
  IF IsSubsequence(pattern, choice) THEN Some(0) ELSE None

\* One visit_<kind> pass: make_search_result, with the kind of the pass, is
\* pushed for each of `keys`, the entries of the map the closure keeps.
Pushed(kind, keys) ==
  [i \in 1..Len(keys) |-> make_search_result(kind, keys[i], descriptions)]

\* all_metrics with the gauge pass tagged MetricKind::Counter.
all_metrics_gauge_as_counter ==
  Pushed("Counter", Registry_visit("Counter"))
    \o Pushed("Counter", Registry_visit("Gauge"))
    \o Pushed("Histogram", Registry_visit("Histogram"))

\* MetricsRegistry::all_metrics: counters, then gauges, then histograms.
all_metrics ==
  Pushed("Counter", Registry_visit("Counter"))
    \o Pushed("Gauge", Registry_visit("Gauge"))
    \o Pushed("Histogram", Registry_visit("Histogram"))

\* The entries of a map whose name the matcher matches against the input:
\* matcher.fuzzy_match(key.name(), input).is_some().
Matching(kind, input) ==
  SelectSeq(Registry_visit(kind), LAMBDA key : fuzzy_match(key.name, input) # None)

\* fuzzy_search_by_name with the arguments of fuzzy_match exchanged.
fuzzy_search_by_name_swapped(input) ==
  LET M(kind) == SelectSeq(Registry_visit(kind),
                           LAMBDA key : fuzzy_match(input, key.name) # None)
  IN Pushed("Counter", M("Counter"))
       \o Pushed("Gauge", M("Gauge"))
       \o Pushed("Histogram", M("Histogram"))

\* fuzzy_search_by_name without the histogram pass.
fuzzy_search_by_name_no_histograms(input) ==
  Pushed("Counter", Matching("Counter", input))
    \o Pushed("Gauge", Matching("Gauge", input))

\* MetricsRegistry::fuzzy_search_by_name: the same three passes, keeping the
\* entries whose name matches.
fuzzy_search_by_name(input) ==
  Pushed("Counter", Matching("Counter", input))
    \o Pushed("Gauge", Matching("Gauge", input))
    \o Pushed("Histogram", Matching("Histogram", input))

\* The three read calls, each as one step that returns: the read lock is
\* taken when no writer holds the lock, and released on return.
call_all_metrics ==
  /\ ~lock.writer
  /\ ret' = [op |-> "all_metrics", results |-> all_metrics]
  /\ UNCHANGED <<registry, descriptions, atomics, buckets, handles, inflight, clearing, history, lock, describing, searching>>

call_fuzzy_search_by_name(input) ==
  /\ ~lock.writer
  /\ ret' = [op |-> "fuzzy_search_by_name", input |-> input,
             results |-> fuzzy_search_by_name(input)]
  /\ UNCHANGED <<registry, descriptions, atomics, buckets, handles, inflight, clearing, history, lock, describing, searching>>

\* A get_description that takes the description out of the map.
call_get_description_take(key) ==
  /\ ~lock.writer
  /\ ret' = [key |-> key, op |-> "get_description", value |-> get_description(key)]
  /\ descriptions' = [k \in DOMAIN descriptions \ {key} |-> descriptions[k]]
  /\ UNCHANGED <<registry, atomics, buckets, handles, inflight, clearing, history, lock, describing, searching>>

call_get_description(key) ==
  /\ ~lock.writer
  /\ ret' = [key |-> key, op |-> "get_description", value |-> get_description(key)]
  /\ UNCHANGED <<registry, descriptions, atomics, buckets, handles, inflight, clearing, history, lock, describing, searching>>

\* ------------------------------------------- the description lock, by steps

\* add_description_if_missing, by steps.  The call: the thread is about to
\* ask for the write lock.
add_description_if_missing_call(key, description) ==
  /\ describing = None
  /\ key \in DOMAIN descriptions \/ Cardinality(DOMAIN descriptions) < MaxDescriptions
  /\ describing' = Some([key |-> key, description |-> description, holds |-> FALSE])
  /\ UNCHANGED <<registry, descriptions, atomics, buckets, handles, inflight, clearing,
                 ret, history, lock, searching>>

\* self.inner.descriptions.write() (line 130): granted when no reader and no
\* writer holds the lock.
add_description_if_missing_write ==
  /\ \E d \in describing : ~d.holds
  /\ lock = Unlocked
  /\ lock' = [lock EXCEPT !.writer = TRUE]
  /\ describing' = {[d EXCEPT !.holds = TRUE] : d \in describing}
  /\ UNCHANGED <<registry, descriptions, atomics, buckets, handles, inflight, clearing,
                 ret, history, searching>>

\* descriptions.entry(key).or_insert(description) (line 131); the guard is
\* dropped and the call returns.
add_description_if_missing_or_insert ==
  \E d \in describing :
    /\ d.holds
    /\ descriptions' = OrInsert(descriptions, d.key, d.description)
    /\ lock' = [lock EXCEPT !.writer = FALSE]
    /\ describing' = None
    /\ ret' = [key |-> d.key, op |-> "describe", description |-> d.description]
    /\ history' = Described(d.key, d.description)
    /\ UNCHANGED <<registry, atomics, buckets, handles, inflight, clearing, searching>>

\* The passes of a search, in the order of the code.
KindOrder == <<"Counter", "Gauge", "Histogram">>

\* The identities registered now.
Registered ==
  UNION {{MetricKey(key, kind) : key \in DOMAIN registry[kind]} : kind \in Kinds}

\* A search that starts its traversal without the read lock.
search_begin_unlocked(input) ==
  /\ ~searching.active
  /\ searching' = [active |-> TRUE, visited |-> {}, snapshot |-> DOMAIN registry[KindOrder[1]],
                    input |-> input, results |-> <<>>, pass |-> 1,
                    began |-> Registered]
  /\ UNCHANGED <<registry, descriptions, atomics, buckets, handles, inflight, clearing,
                 ret, history, lock, describing>>

\* all_metrics and fuzzy_search_by_name, by steps.  The begin:
\* self.inner.descriptions.read() (lines 85, 112), granted when no writer
\* holds the lock, and the first visit_<kind> starts over the entries the
\* map has now.  `input` is None for all_metrics.
search_begin(input) ==
  /\ ~searching.active
  /\ ~lock.writer
  /\ lock' = [lock EXCEPT !.readers = @ + 1]
  /\ searching' = [active |-> TRUE, visited |-> {}, snapshot |-> DOMAIN registry[KindOrder[1]],
                    input |-> input, results |-> <<>>, pass |-> 1,
                    began |-> Registered]
  /\ UNCHANGED <<registry, descriptions, atomics, buckets, handles, inflight, clearing,
                 ret, history, describing>>

all_metrics_begin == search_begin(None)
fuzzy_search_by_name_begin(input) == search_begin(Some(input))

\* The closure of a visit_<kind> on one entry of the map: all_metrics pushes
\* a result; fuzzy_search_by_name pushes it if the name matches.  An entry
\* inserted during the traversal may be visited too; no entry is visited
\* twice.
search_visit(key) ==
  /\ searching.active
  /\ LET kind == KindOrder[searching.pass]
         keeps == \A input \in searching.input : fuzzy_match(key.name, input) # None
     IN /\ key \in DOMAIN registry[kind] \ searching.visited
        /\ searching' = [searching EXCEPT
             !.visited = @ \cup {key},
             !.results = IF keeps
                         THEN Append(@, make_search_result(kind, key, descriptions))
                         ELSE @]
  /\ UNCHANGED <<registry, descriptions, atomics, buckets, handles, inflight, clearing,
                 ret, history, lock, describing>>

\* A traversal that goes on to the next map before it has passed every
\* entry of this one.
search_next_early ==
  /\ searching.active
  /\ searching.pass < Len(KindOrder)
  /\ searching' = [searching EXCEPT
       !.pass = @ + 1, !.visited = {},
       !.snapshot = DOMAIN registry[KindOrder[searching.pass + 1]]]
  /\ UNCHANGED <<registry, descriptions, atomics, buckets, handles, inflight, clearing,
                 ret, history, lock, describing>>

\* One visit_<kind> ends, having passed every entry that was there when it
\* began, and the next one starts.
search_next ==
  /\ searching.active
  /\ searching.snapshot \subseteq searching.visited
  /\ searching.pass < Len(KindOrder)
  /\ searching' = [searching EXCEPT
       !.pass = @ + 1, !.visited = {},
       !.snapshot = DOMAIN registry[KindOrder[searching.pass + 1]]]
  /\ UNCHANGED <<registry, descriptions, atomics, buckets, handles, inflight, clearing,
                 ret, history, lock, describing>>

\* The last visit ends, `results` is returned and the read guard dropped.
\* It is noted which identities were registered when the call began and
\* whether a describe call is waiting for the lock.
search_return ==
  /\ searching.active
  /\ searching.snapshot \subseteq searching.visited
  /\ searching.pass = Len(KindOrder)
  /\ lock' = [lock EXCEPT !.readers = @ - 1]
  /\ searching' = NotSearching
  /\ ret' = [op |-> IF searching.input = None THEN "all_metrics"
                    ELSE "fuzzy_search_by_name",
             input |-> searching.input, results |-> searching.results,
             began |-> searching.began, waiting |-> describing]
  /\ UNCHANGED <<registry, descriptions, atomics, buckets, handles, inflight, clearing,
                 history, describing>>

\* ------------------------------------------------------------ specification

\* Cells and handles: every kind is registered through both entry points
\* under the two variants of one name, and mutated through the handles.
Next ==
  \/ \E key \in {KeyA, KeyB} : get_or_create_counter(key)
  \/ \E key \in {KeyA, KeyB} : get_or_create_gauge(key)
  \/ \E key \in {KeyA, KeyB} : get_or_create_histogram(key)
  \/ \E key \in {KeyA, KeyB} : register_counter(key)
  \/ \E key \in {KeyA, KeyB} : register_gauge(key)
  \/ \E key \in {KeyA, KeyB} : register_histogram(key)
  \/ \E h \in handles, a \in Amounts :
       history.sum[h.key] + a <= MaxCount /\ CounterIncrement(h, a)
  \/ \E h \in handles, v \in GaugeValues : GaugeSet(h, v)
  \/ \E h \in handles : HistogramRecordBegin(h)
  \/ \E r \in inflight : HistogramRecordLand(r)

Spec == Init /\ [][Next]_vars

\* Clearing: histograms under two names take samples while
\* clear_atomic_buckets runs.
NextClear ==
  \/ \E key \in {KeyA, KeyC} : register_histogram(key)
  \/ \E h \in handles : HistogramRecordBegin(h)
  \/ \E r \in inflight : HistogramRecordLand(r)
  \/ clear_atomic_buckets_call
  \/ \E key \in Keys : clear_atomic_buckets_visit(key)
  \/ clear_atomic_buckets_return

SpecClear == Init /\ [][NextClear]_vars

\* What a clear leaves alone: a counter, a gauge and a histogram of one key
\* are registered, described and driven, and clear_atomic_buckets runs.
NextFrame ==
  \/ register_counter(KeyA)
  \/ register_gauge(KeyA)
  \/ register_histogram(KeyA)
  \/ \E d \in MetricDescriptions : describe_histogram(Name1, d)
  \/ \E h \in handles, a \in Amounts :
       history.sum[h.key] + a <= MaxCount /\ CounterIncrement(h, a)
  \/ \E h \in handles, v \in GaugeValues : GaugeSet(h, v)
  \/ \E h \in handles : HistogramRecordBegin(h)
  \/ \E r \in inflight : HistogramRecordLand(r)
  \/ clear_atomic_buckets_call
  \/ \E key \in Keys : clear_atomic_buckets_visit(key)
  \/ clear_atomic_buckets_return

SpecFrame == Init /\ [][NextFrame]_vars

\* Searching: counters under every key, a gauge and a histogram, described
\* or not, and the three read calls.
NextSearch ==
  \/ \E key \in Keys : register_counter(key)
  \/ register_gauge(KeyC)
  \/ register_histogram(KeyA)
  \/ \E name \in Names, d \in MetricDescriptions : describe_counter(name, d)
  \/ \E d \in MetricDescriptions : describe_gauge(Name2, d)
  \/ \E d \in MetricDescriptions : describe_histogram(Name1, d)
  \/ call_all_metrics
  \/ \E input \in Queries : call_fuzzy_search_by_name(input)
  \/ \E key \in DescriptionKeys : call_get_description(key)

SpecSearch == Init /\ [][NextSearch]_vars

\* Two labelled counters of one name and a gauge of that name: they are
\* registered, looked up and driven, counter and gauge names are described,
\* and all_metrics is called.
NextScenario ==
  \/ \E key \in {KeyA, KeyB} : register_counter(key)
  \/ \E key \in {KeyA, KeyB} : get_or_create_counter(key)
  \/ register_gauge(KeyA)
  \/ \E name \in Names, d \in MetricDescriptions : describe_counter(name, d)
  \/ \E d \in MetricDescriptions : describe_gauge(Name1, d)
  \/ \E h \in handles, a \in ScenarioAmounts :
       history.sum[h.key] + a <= MaxTotal /\ CounterIncrement(h, a)
  \/ \E h \in handles, v \in GaugeValues : GaugeSet(h, v)
  \/ call_all_metrics

SpecScenario == Init /\ [][NextScenario]_vars

\* Metric traffic next to the description lock: one key is registered under
\* the three kinds through both entry points, its counter is incremented,
\* its gauge set, a sample recorded and clear_atomic_buckets run, while a
\* describe call and a search take and release the lock of the
\* descriptions.
NextLock ==
  \/ get_or_create_counter(KeyA)
  \/ get_or_create_gauge(KeyA)
  \/ get_or_create_histogram(KeyA)
  \/ register_counter(KeyA)
  \/ register_gauge(KeyA)
  \/ register_histogram(KeyA)
  \/ \E h \in handles : history.sum[h.key] = 0 /\ CounterIncrement(h, 1)
  \/ \E h \in handles : GaugeSet(h, 1)
  \/ \E h \in handles : SamplesBegun = {} /\ HistogramRecordBegin(h)
  \/ \E r \in inflight : HistogramRecordLand(r)
  \/ clear_atomic_buckets_call
  \/ \E key \in Keys : clear_atomic_buckets_visit(key)
  \/ clear_atomic_buckets_return
  \/ add_description_if_missing_call(DescriptionKey(Name1, "Counter"),
                                     [unit |-> None, text |-> "second"])
  \/ add_description_if_missing_write
  \/ add_description_if_missing_or_insert
  \/ fuzzy_search_by_name_begin(<<"a", "a">>)
  \/ \E key \in Keys : search_visit(key)
  \/ search_next
  \/ search_return

SpecLock == Init /\ [][NextLock]_vars

\* Every public operation of the registry: a key is registered under the
\* three kinds through get_or_create_<kind> and register_<kind>, and another
\* key as a histogram; names are described; and the read calls and
\* clear_atomic_buckets run.
NextGrow ==
  \/ get_or_create_counter(KeyA)
  \/ get_or_create_gauge(KeyA)
  \/ get_or_create_histogram(KeyA)
  \/ register_counter(KeyA)
  \/ register_gauge(KeyA)
  \/ register_histogram(KeyC)
  \/ \E d \in MetricDescriptions : describe_counter(Name1, d)
  \/ describe_gauge(Name1, [unit |-> None, text |-> "second"])
  \/ describe_histogram(Name2, [unit |-> None, text |-> "second"])
  \/ \E kind \in {"Counter", "Histogram"} :
       call_get_description(DescriptionKey(Name1, kind))
  \/ call_all_metrics
  \/ call_fuzzy_search_by_name(<<"b", "b">>)
  \/ clear_atomic_buckets_call
  \/ \E key \in Keys : clear_atomic_buckets_visit(key)
  \/ clear_atomic_buckets_return

SpecGrow == Init /\ [][NextGrow]_vars

\* Titles: MetricKey::title on every key and kind, with and without a
\* display path, for every n_duplicates up to the bound.
NextTitle ==
  \E key \in Keys, kind \in Kinds, display_path \in DisplayPaths,
     n_duplicates \in 0..MaxDuplicates :
    call_title(MetricKey(key, kind), display_path, n_duplicates)

SpecTitle == Init /\ [][NextTitle]_vars

\* Searching while others register and describe: counters under every key
\* and a histogram are registered, a counter name is described, and
\* all_metrics and fuzzy_search_by_name run by steps.
NextTraverse ==
  \/ \E key \in Keys : register_counter(key)
  \/ register_histogram(KeyA)
  \/ \E d \in MetricDescriptions :
       add_description_if_missing_call(DescriptionKey(Name1, "Counter"), d)
  \/ add_description_if_missing_write
  \/ add_description_if_missing_or_insert
  \/ all_metrics_begin
  \/ fuzzy_search_by_name_begin(<<"b", "b">>)
  \/ \E key \in Keys : search_visit(key)
  \/ search_next
  \/ search_return

SpecTraverse == Init /\ [][NextTraverse]_vars

\* ================================================================== claims

\* C1: for every key and kind, whatever get_or_create_<kind> and
\* register_<kind> calls were made, exactly one storage cell exists for the
\* identity, it is the cell the map holds, and every handle issued (the last
\* one returned included) is a handle to that cell, so that all handles of an
\* identity are one cell and a mutation through one shows through the others.
C1_OneCellPerIdentity ==
  /\ \A c \in Cells :
       /\ c.key \in DOMAIN registry[c.kind]
       /\ c = StoredCell(c.kind, c.key)
  /\ \A kind \in Kinds : \A key \in DOMAIN registry[kind] :
       Cardinality(CellsOf(kind, key)) = 1
  /\ \A h \in handles :
       /\ h.key \in DOMAIN registry[h.kind]
       /\ h = StoredCell(h.kind, h.key)
  /\ ret.op \in {"get_or_create", "register"} => ret.handle \in handles
  /\ \A h1, h2 \in handles : (h1.kind = h2.kind /\ h1.key = h2.key) => h1 = h2

\* A register_counter call came back with the cell that an earlier handle of
\* the same key had already incremented.
C1_Witness ==
  /\ ret.op = "register"
  /\ ret.handle.kind = "Counter"
  /\ atomics[ret.handle] > 0

\* C2: descriptions are first-writer-wins.  A describe call on a key that
\* has a description leaves it as it is (and on a key that has none stores
\* its own), and a description get_description has returned is returned ever
\* after: no step changes or removes a stored description.
C2_FirstWriterWins ==
  [][ /\ \A key \in DOMAIN descriptions :
           /\ key \in DOMAIN descriptions'
           /\ get_description(key)' = get_description(key)
      /\ ret'.op = "describe" =>
           descriptions'[ret'.key] =
             IF ret'.key \in DOMAIN descriptions
             THEN descriptions[ret'.key] ELSE ret'.description ]_vars

\* A describe call whose description differs from the stored one has
\* returned.
C2_Witness ==
  /\ ret.op = "describe"
  /\ descriptions[ret.key] # ret.description

\* C3: the value of a counter's cell, read through the registry, is the sum
\* of the amounts incremented through the handles issued for its key, in
\* every interleaving of the increments: no update is lost.
C3_NoLostUpdate ==
  \A key \in Keys :
    IF key \in DOMAIN registry["Counter"]
    THEN atomics[StoredCell("Counter", key)] = history.sum[key]
    ELSE history.sum[key] = 0

\* Two increments have been applied to the counter of one key, and its cell
\* reads their sum.
C3_Witness ==
  \E key \in DOMAIN registry["Counter"] :
    /\ history.increments[key] >= 2
    /\ atomics[StoredCell("Counter", key)] = MaxCount

\* C4: samples appended through registered handles while
\* clear_atomic_buckets runs.  Every sample whose record call returned went
\* to the bucket the registry holds for its key, and is in exactly one
\* place: in that bucket, once; or taken out of it by a clear; or written to
\* a buffer that a clear detached while the append was in flight.  No bucket
\* holds a sample twice or a sample whose record call has not returned, and
\* a sample is lost to a detached buffer only if its append had begun before
\* the clear took effect.
C4_AppendClearBoundary ==
  /\ \A r \in history.recorded :
       /\ r.cell.key \in DOMAIN registry["Histogram"]
       /\ r.cell = StoredCell("Histogram", r.cell.key)
       /\ LET present == r.id \in Held(r.cell)
              taken == r.id \in history.discarded
              detached == r.id \in history.stale
          IN /\ \/ present /\ ~taken /\ ~detached
                \/ ~present /\ taken /\ ~detached
                \/ ~present /\ ~taken /\ detached
             /\ detached => r.id \in history.overtaken
  /\ \A c \in DOMAIN buckets :
       /\ Cardinality(Held(c)) = Len(buckets[c])
       /\ Held(c) \subseteq {r.id : r \in {x \in history.recorded : x.cell = c}}

\* A clear has returned; one sample landed in a bucket the clear had already
\* emptied and another was written to a buffer a clear had detached.
C4_Witness ==
  /\ ret.op = "clear_atomic_buckets"
  /\ ret.after # {}
  /\ history.stale # {}

\* C5, as stated: when clear_atomic_buckets has just returned, a read of a
\* histogram cell (of any cell the call has emptied) yields zero buffered
\* samples, whatever appends ran concurrently with the call.
C5_ZeroAfterClear ==
  ret.op = "clear_atomic_buckets" =>
    \A key \in ret.visited :
      Len(buckets[StoredCell("Histogram", key)]) = 0

\* C5, amended: when clear_atomic_buckets has just returned, every histogram
\* cell that was registered when the call began has been emptied by it and
\* holds exactly the samples whose append landed after that: none of the
\* samples buffered before, and zero samples if no append landed since.
C5_OnlyLaterSamples ==
  ret.op = "clear_atomic_buckets" =>
    /\ ret.snapshot \subseteq ret.visited
    /\ \A key \in ret.visited :
         LET cell == StoredCell("Histogram", key) IN
           /\ Held(cell) = {r.id : r \in {x \in history.recorded :
                                             x.cell = cell /\ x.id \in ret.after}}
           /\ Len(buckets[cell]) = Cardinality(Held(cell))

\* A clear that discarded samples has returned, a cell it visited reads zero
\* samples, and an append is in flight.
C5_Witness ==
  /\ ret.op = "clear_atomic_buckets"
  /\ history.discarded # {}
  /\ inflight # {}
  /\ \E key \in ret.visited : Len(buckets[StoredCell("Histogram", key)]) = 0

\* C6: a step of clear_atomic_buckets changes nothing but the samples
\* buffered in histogram cells, which it only discards: the three maps,
\* every counter and gauge value, the descriptions, the set of cells and the
\* handles are as before, and all_metrics still returns every histogram
\* identity.
C6_ClearFrame ==
  [][ (clearing'.active # clearing.active \/ clearing'.visited # clearing.visited) =>
        /\ registry' = registry
        /\ atomics' = atomics
        /\ descriptions' = descriptions
        /\ handles' = handles
        /\ DOMAIN buckets' = DOMAIN buckets
        /\ \A c \in DOMAIN buckets : buckets'[c] = buckets[c] \/ buckets'[c] = <<>>
        /\ \A key \in DOMAIN registry["Histogram"] :
             \E i \in 1..Len(all_metrics') :
               all_metrics'[i].key = MetricKey(key, "Histogram") ]_vars

\* A clear has discarded samples of a histogram while a counter and a gauge
\* hold values and a description is stored.
C6_Witness ==
  /\ clearing.active
  /\ clearing.visited # {}
  /\ history.discarded # {}
  /\ DOMAIN descriptions # {}
  /\ \E c \in DOMAIN atomics : c.kind = "Counter" /\ atomics[c] > 0
  /\ \E c \in DOMAIN atomics : c.kind = "Gauge" /\ atomics[c] > 0

\* How often x occurs in a result collection, and equality of two
\* collections as unordered collections.
Occurrences(results, x) == Cardinality({i \in 1..Len(results) : results[i] = x})
SameCollection(r1, r2) ==
  /\ Len(r1) = Len(r2)
  /\ \A i \in 1..Len(r1) : Occurrences(r1, r1[i]) = Occurrences(r2, r1[i])

\* The characters of `pattern` occur in `name` at increasing positions.
Embeds(pattern, name) ==
  \E f \in [1..Len(pattern) -> 1..Len(name)] :
    /\ \A i \in 1..Len(pattern) : name[f[i]] = pattern[i]
    /\ \A i, j \in 1..Len(pattern) : i < j => f[i] < f[j]

\* `pattern` occurs in `name` as a contiguous substring.
Contains(pattern, name) ==
  \E off \in 0..(Len(name) - Len(pattern)) :
    \A i \in 1..Len(pattern) : name[off + i] = pattern[i]

\* C7: in every state of the registry, fuzzy_search_by_name("") returns the
\* same collection as all_metrics(): the same identities, each as often,
\* with the same descriptions.
C7_EmptyQueryIsAllMetrics ==
  SameCollection(fuzzy_search_by_name(<<>>), all_metrics)

\* A search with the empty input has returned several results, one of them
\* with a description.
C7_Witness ==
  /\ ret.op = "fuzzy_search_by_name"
  /\ ret.input = <<>>
  /\ Len(ret.results) >= 2
  /\ \E i \in 1..Len(ret.results) : ret.results[i].description # None

\* C8: fuzzy_search_by_name(q) returns exactly the results of all_metrics()
\* whose name contains the characters of q in order; so every result whose
\* name contains q as a substring is returned, and nothing is returned when
\* no registered name contains the characters of q in order.
C8_SearchIsSubsequenceFilter ==
  \A q \in Queries :
    LET found == fuzzy_search_by_name(q)
        expected == SelectSeq(all_metrics, LAMBDA r : Embeds(q, r.key.key.name))
    IN /\ SameCollection(found, expected)
       /\ \A i \in 1..Len(all_metrics) :
            Contains(q, all_metrics[i].key.key.name) =>
              Occurrences(found, all_metrics[i]) = 1
       /\ (\A i \in 1..Len(all_metrics) : ~Embeds(q, all_metrics[i].key.key.name))
            => found = <<>>

\* A search for two characters that one registered name holds apart and the
\* other does not hold has returned some of the registered metrics, not all.
C8_Witness ==
  /\ ret.op = "fuzzy_search_by_name"
  /\ ret.input = <<"b", "b">>
  /\ Len(ret.results) >= 1
  /\ Len(ret.results) < Len(all_metrics)

\* C9: all_metrics() returns one result for each identity stored in the
\* counter, gauge and histogram maps and nothing else; the result carries
\* the kind of its map and the description get_description returns for the
\* DescriptionKey (name, kind), absent when none is stored.
C9_AllMetricsExact ==
  /\ \A kind \in Kinds, key \in Keys :
       Cardinality({i \in 1..Len(all_metrics) :
                      all_metrics[i].key = MetricKey(key, kind)})
         = IF key \in DOMAIN registry[kind] THEN 1 ELSE 0
  /\ Len(all_metrics) =
       Cardinality(DOMAIN registry["Counter"]) + Cardinality(DOMAIN registry["Gauge"])
         + Cardinality(DOMAIN registry["Histogram"])
  /\ \A i \in 1..Len(all_metrics) :
       LET r == all_metrics[i] IN
         /\ r.key.kind \in Kinds
         /\ r.key.key \in DOMAIN registry[r.key.kind]
         /\ r.description = get_description(DescriptionKey(r.key.key.name, r.key.kind))

\* all_metrics has returned results of two kinds, one with a description and
\* one without.
C9_Witness ==
  /\ ret.op = "all_metrics"
  /\ \E i, j \in 1..Len(ret.results) :
       /\ ret.results[i].key.kind # ret.results[j].key.kind
       /\ ret.results[i].description # None
       /\ ret.results[j].description = None

\* C10: the label-set variants of a name share one description.  For two
\* registered keys of one kind with the same name, the DescriptionKey derived
\* from either MetricKey is the same key, namely (name, kind), and
\* get_description on it returns the description stored for the name, for
\* both.
C10_VariantsShareDescription ==
  \A kind \in Kinds : \A k1, k2 \in DOMAIN registry[kind] :
    k1.name = k2.name =>
      LET d1 == DescriptionKeyFrom(MetricKey(k1, kind))
          d2 == DescriptionKeyFrom(MetricKey(k2, kind))
      IN /\ d1 = d2
         /\ d1 = DescriptionKey(k1.name, kind)
         /\ get_description(d1) = get_description(d2)
         /\ DescriptionKey(k1.name, kind) \in DOMAIN descriptions =>
              get_description(d1) = Some(descriptions[DescriptionKey(k1.name, kind)])

\* A counter name is described, its two label-set variants are registered,
\* and get_description on their DescriptionKey has returned the description.
C10_Witness ==
  /\ {KeyA, KeyB} \subseteq DOMAIN registry["Counter"]
  /\ ret.op = "get_description"
  /\ ret.key = DescriptionKeyFrom(MetricKey(KeyA, "Counter"))
  /\ ret.key = DescriptionKeyFrom(MetricKey(KeyB, "Counter"))
  /\ ret.value # None

\* C11: describe and register calls commute.  Whatever the order and the
\* interleaving in which describe_<kind> and register_<kind> calls were
\* made, the state is the one their two histories give separately: the
\* stored descriptions are what the describe calls asked for (per key, the
\* description of the first describe call, whether the name was registered
\* before it, after it, or never), the registered identities are those the
\* registration calls named, and all_metrics() reports each of these
\* identities once, with the description described for its name and kind.
C11_DescribeRegisterCommute ==
  /\ descriptions = history.described
  /\ \A kind \in Kinds :
       DOMAIN registry[kind] = {m.key : m \in {x \in history.registered : x.kind = kind}}
  /\ Len(all_metrics) = Cardinality(history.registered)
  /\ \A m \in history.registered :
       LET desc_key == DescriptionKey(m.key.name, m.kind)
           expected == [key |-> m,
                        description |->
                          IF desc_key \in DOMAIN history.described
                          THEN Some(history.described[desc_key]) ELSE None]
       IN Occurrences(all_metrics, expected) = 1

\* A register call has returned for a name that was described before this
\* call and had another variant registered; the description is stored.
C11_Witness ==
  /\ ret.op = "register"
  /\ ret.handle.kind = "Counter"
  /\ ret.handle.key = KeyB
  /\ KeyA \in DOMAIN registry["Counter"]
  /\ DescriptionKey(Name1, "Counter") \in DOMAIN descriptions

\* The counter entries all_metrics has returned under the name of KeyA and
\* KeyB.
ScenarioEntries ==
  SelectSeq(ret.results,
            LAMBDA r : r.key.kind = "Counter" /\ r.key.key.name = Name1)

\* The scenario has run: the two variants were incremented by 5 and by 3.
ScenarioDone == history.sum[KeyA] = 5 /\ history.sum[KeyB] = 3

\* C12, as stated: after the scenario, all_metrics() reports two distinct
\* counter entries under the name, and the entries carry the values 5 and 3.
C12_ValuesInResults ==
  (ret.op = "all_metrics" /\ ScenarioDone) =>
    \E i, j \in 1..Len(ScenarioEntries) :
      LET a == ScenarioEntries[i]
          b == ScenarioEntries[j]
      IN /\ a # b
         /\ a.key.key = KeyA /\ "value" \in DOMAIN a /\ a.value = 5
         /\ b.key.key = KeyB /\ "value" \in DOMAIN b /\ b.value = 3

\* C12, amended: after the scenario, all_metrics() reports two distinct
\* counter entries under the name, one per label set, each made of the key
\* and the description and of nothing else; the values 5 and 3 are in the
\* two cells, where get_or_create_counter(key) finds them.
C12_EntriesWithoutValues ==
  ScenarioDone =>
    /\ atomics[StoredCell("Counter", KeyA)] = 5
    /\ atomics[StoredCell("Counter", KeyB)] = 3
    /\ ret.op = "get_or_create" =>
         atomics[ret.handle] = IF ret.handle.key = KeyA THEN 5 ELSE 3
    /\ ret.op = "all_metrics" =>
         /\ Len(ScenarioEntries) = 2
         /\ ScenarioEntries[1] # ScenarioEntries[2]
         /\ {ScenarioEntries[i].key : i \in 1..2}
              = {MetricKey(KeyA, "Counter"), MetricKey(KeyB, "Counter")}
         /\ \A i \in 1..2 : DOMAIN ScenarioEntries[i] = {"key", "description"}

\* The two variants were incremented once each, by 5 and by 3, and
\* all_metrics has returned.
C12_Witness ==
  /\ ret.op = "all_metrics"
  /\ ScenarioDone
  /\ history.increments[KeyA] = 1
  /\ history.increments[KeyB] = 1

\* C13: a search that ran by steps while identities were registered.  The
\* returned collection holds no identity twice; it holds every identity
\* that was registered when the call began (for fuzzy_search_by_name, every
\* such identity whose name matches, and no other name); and every identity
\* it holds is registered.  Identities registered during the traversal may
\* or may not be in it.
C13_TraversalUnderInserts ==
  ret.op \in {"all_metrics", "fuzzy_search_by_name"} =>
    /\ \A i, j \in 1..Len(ret.results) :
         ret.results[i].key = ret.results[j].key => i = j
    /\ \A m \in ret.began :
         (\A input \in ret.input : Embeds(input, m.key.name)) =>
           \E i \in 1..Len(ret.results) : ret.results[i].key = m
    /\ \A i \in 1..Len(ret.results) :
         /\ ret.results[i].key \in history.registered
         /\ ret.results[i].key \in Registered
         /\ \A input \in ret.input : Embeds(input, ret.results[i].key.key.name)

\* all_metrics has returned an identity that was registered when the call
\* began and one that was registered during the traversal, and has missed
\* another one that was registered during the traversal.
C13_Witness ==
  /\ ret.op = "all_metrics"
  /\ ret.began # {}
  /\ \E i \in 1..Len(ret.results) : ret.results[i].key \notin ret.began
  /\ \E m \in history.registered \ ret.began :
       \A i \in 1..Len(ret.results) : ret.results[i].key # m

\* The number a string of decimal digits denotes, and -1 for any other
\* string.
DigitValue(ch) ==
  IF \E d \in 0..9 : Digits[d + 1] = ch
  THEN CHOOSE d \in 0..9 : Digits[d + 1] = ch ELSE -1
RECURSIVE Denotes(_)
Denotes(str) ==
  IF Len(str) = 0 \/ DigitValue(str[Len(str)]) < 0 THEN -1
  ELSE IF Len(str) = 1 THEN DigitValue(str[1])
  ELSE LET front == Denotes(SubSeq(str, 1, Len(str) - 1))
       IN IF front < 0 THEN -1 ELSE 10 * front + DigitValue(str[Len(str)])

\* C14: MetricKey::title(display_path, n) returns "<name> (<kind>) <n>" when
\* n > 0 and "<name> (<kind>)" when n = 0: the title starts with <name>,
\* which is display_path when one is supplied and the key's own name
\* otherwise; " (", the string of the key's kind and ")" follow; after that
\* comes nothing when n = 0, and a space and the decimal digits of n when
\* n > 0.  The labels are not in the title: a key with the same name and
\* other labels has the same title.
C14_Title ==
  ret.op = "title" =>
    LET name == IF ret.display_path = None THEN ret.key.key.name
                ELSE CHOOSE path \in ret.display_path : TRUE
        kind == metric_kind_str(ret.key.kind)
        stem == Len(name) + Len(kind) + 3
    IN /\ Len(ret.value) >= stem
       /\ SubSeq(ret.value, 1, Len(name)) = name
       /\ SubSeq(ret.value, Len(name) + 1, Len(name) + 2) = <<" ", "(">>
       /\ SubSeq(ret.value, Len(name) + 3, stem - 1) = kind
       /\ ret.value[stem] = ")"
       /\ ret.n_duplicates = 0 => Len(ret.value) = stem
       /\ ret.n_duplicates > 0 =>
            /\ Len(ret.value) > stem + 1
            /\ ret.value[stem + 1] = " "
            /\ Denotes(SubSeq(ret.value, stem + 2, Len(ret.value))) = ret.n_duplicates
       /\ \A key \in Keys :
            key.name = ret.key.key.name =>
              title(MetricKey(key, ret.key.kind), ret.display_path, ret.n_duplicates)
                = ret.value

\* title has returned for a key with labels, a display path and a counter
\* of two digits.
C14_Witness ==
  /\ ret.op = "title"
  /\ ret.key.key.labels # <<>>
  /\ ret.display_path # None
  /\ ret.n_duplicates >= 10

\* C15: the three kinds are stored independently.  An identity is in the
\* map of a kind exactly if a registration call named it with that kind, so
\* registering a key under one kind never makes it appear under another; the
\* cells a key has under different kinds are different cells; all_metrics
\* reports a key once for each kind it is registered under, three times
\* when it is registered under all three; and what each cell holds is what
\* the handles of its own kind did (the counter the sum of its increments,
\* the gauge the value last set, the histogram samples recorded to it),
\* whatever was done to the cells the key has under the other kinds.
C15_KindsIndependent ==
  LET results == all_metrics IN
  /\ \A kind \in Kinds, key \in Keys :
       key \in DOMAIN registry[kind] <=> MetricKey(key, kind) \in history.registered
  /\ \A kind \in Kinds : \A key \in DOMAIN registry[kind] :
       /\ \A other \in Kinds \ {kind} :
            key \in DOMAIN registry[other] =>
              StoredCell(kind, key) # StoredCell(other, key)
       /\ Cardinality({i \in 1..Len(results) :
                         results[i].key = MetricKey(key, kind)}) = 1
  /\ \A key \in Keys :
       Cardinality({i \in 1..Len(results) : results[i].key.key = key})
         = Cardinality({kind \in Kinds : key \in DOMAIN registry[kind]})
  /\ \A key \in DOMAIN registry["Counter"] :
       atomics[StoredCell("Counter", key)] = history.sum[key]
  /\ \A key \in DOMAIN registry["Gauge"] :
       atomics[StoredCell("Gauge", key)] = history.set[key]
  /\ \A key \in DOMAIN registry["Histogram"] :
       LET cell == StoredCell("Histogram", key) IN
         Held(cell) = {r.id : r \in {x \in history.recorded : x.cell = cell}}
                        \ (history.discarded \cup history.stale)

\* One key is registered as a counter, as a gauge and as a histogram; the
\* three cells hold a count, a different gauge value and a sample.
C15_Witness ==
  /\ \A kind \in Kinds : KeyA \in DOMAIN registry[kind]
  /\ atomics[StoredCell("Counter", KeyA)] = 2
  /\ atomics[StoredCell("Gauge", KeyA)] = 1
  /\ Len(buckets[StoredCell("Histogram", KeyA)]) = 1

\* C16: a describe call touches only the description entry of its own
\* (name, kind).  In the step of a describe call every description that was
\* stored stays as it was, no key other than the call's own gets a
\* description, no storage cell is created, no handle is issued, and every
\* counter, gauge and histogram value is as before; so the search result of
\* every registered metric of another kind or another name is the same
\* before and after, without a description if it had none.
C16_DescribeFrame ==
  [][ ret'.op = "describe" =>
        /\ \A k \in DOMAIN descriptions :
             k \in DOMAIN descriptions' /\ descriptions'[k] = descriptions[k]
        /\ DOMAIN descriptions' \subseteq DOMAIN descriptions \cup {ret'.key}
        /\ registry' = registry
        /\ atomics' = atomics
        /\ buckets' = buckets
        /\ handles' = handles
        /\ \A kind \in Kinds : \A key \in DOMAIN registry[kind] :
             (kind # ret'.key.kind \/ key.name # ret'.key.name) =>
               make_search_result(kind, key, descriptions')
                 = make_search_result(kind, key, descriptions) ]_vars

\* describe_counter has returned for the name of a registered gauge that
\* holds a value and has no description, while a counter of the name holds
\* a value too.
C16_Witness ==
  /\ ret.op = "describe"
  /\ ret.key = DescriptionKey(Name1, "Counter")
  /\ KeyA \in DOMAIN registry["Gauge"]
  /\ KeyA \in DOMAIN registry["Counter"]
  /\ atomics[StoredCell("Gauge", KeyA)] > 0
  /\ atomics[StoredCell("Counter", KeyA)] > 0
  /\ make_search_result("Gauge", KeyA, descriptions).description = None

\* A thread holds the lock of the descriptions.
DescriptionsLocked == lock.writer \/ lock.readers > 0

\* Room for one more cell within the bound of the model.
CanInsert(kind, key) == key \in DOMAIN registry[kind] \/ Cardinality(Cells) < MaxCells

\* C17: metric traffic is not serialized through the description lock.
\* Whenever a thread holds the lock, for writing inside a describe call or
\* for reading inside a search, each of get_or_create_<kind>,
\* register_<kind>, an increment, a set, the two halves of a record and the
\* steps of clear_atomic_buckets can take its step, and the step leaves the
\* lock as it is.
C17_TrafficNotSerialized ==
  DescriptionsLocked =>
    /\ CanInsert("Counter", KeyA) =>
         /\ ENABLED (get_or_create_counter(KeyA) /\ lock' = lock)
         /\ ENABLED (register_counter(KeyA) /\ lock' = lock)
    /\ CanInsert("Gauge", KeyA) =>
         /\ ENABLED (get_or_create_gauge(KeyA) /\ lock' = lock)
         /\ ENABLED (register_gauge(KeyA) /\ lock' = lock)
    /\ CanInsert("Histogram", KeyA) =>
         /\ ENABLED (get_or_create_histogram(KeyA) /\ lock' = lock)
         /\ ENABLED (register_histogram(KeyA) /\ lock' = lock)
    /\ \A h \in HandlesOf("Counter") :
         ENABLED (CounterIncrement(h, 1) /\ lock' = lock)
    /\ \A h \in HandlesOf("Gauge") :
         ENABLED (GaugeSet(h, 1) /\ lock' = lock)
    /\ \A h \in HandlesOf("Histogram") :
         Cardinality(SamplesBegun) < MaxSamples =>
           ENABLED (HistogramRecordBegin(h) /\ lock' = lock)
    /\ \A r \in inflight :
         ENABLED (HistogramRecordLand(r) /\ lock' = lock)
    /\ ~clearing.active => ENABLED (clear_atomic_buckets_call /\ lock' = lock)
    /\ clearing.active =>
         /\ \A key \in DOMAIN registry["Histogram"] \ clearing.visited :
              ENABLED (clear_atomic_buckets_visit(key) /\ lock' = lock)
         /\ clearing.snapshot \subseteq clearing.visited =>
              ENABLED (clear_atomic_buckets_return /\ lock' = lock)

\* A search holds the lock for reading, with a describe call waiting for
\* it, while a counter, a gauge and a histogram have handles, an append is
\* in flight and a clear is at work.
C17_Witness ==
  /\ lock.readers > 0
  /\ describing # None
  /\ \A kind \in Kinds : HandlesOf(kind) # {}
  /\ inflight # {}
  /\ clearing.active
  /\ clearing.visited = {}

\* A histogram cell as a clear leaves it: no sample buffered, and no append
\* in flight that could still land in it.
AfterClear(cell) ==
  /\ buckets[cell] = <<>>
  /\ \A r \in inflight : r.cell = cell => r.stale

\* C18: clear_atomic_buckets is idempotent.  The step of a call on a
\* histogram leaves its bucket empty and with no append that could still
\* land in it, and leaves the identities as they are.  On a histogram that
\* is in that condition already (a call has emptied it and no append came in
\* between, or it never took a sample) the step changes nothing: the maps,
\* every bucket, the appends in flight, the counters and gauges, the
\* descriptions and the handles are as before.  The begin and the return of
\* a call change nothing either; so a second call leaves the registry as the
\* first call left it, and a call on a registry without histograms, which
\* has no histogram to step on, changes nothing.
C18_ClearIdempotent ==
  [][ /\ \A key \in clearing'.visited \ clearing.visited :
           LET cell == StoredCell("Histogram", key) IN
             /\ registry' = registry
             /\ AfterClear(cell)'
             /\ AfterClear(cell) =>
                  /\ buckets' = buckets
                  /\ inflight' = inflight
                  /\ atomics' = atomics
                  /\ descriptions' = descriptions
                  /\ handles' = handles
                  /\ history' = history
      /\ clearing'.active # clearing.active =>
           UNCHANGED <<registry, buckets, inflight, atomics, descriptions, handles, history>>
      /\ (clearing'.active /\ DOMAIN registry["Histogram"] = {}) =>
           clearing'.visited = {} ]_vars

\* A clear_atomic_buckets call that discarded samples has returned, a second
\* call began with no append in between and has passed a histogram, whose
\* bucket is empty as the first call left it.
C18_Witness ==
  /\ clearing.active
  /\ clearing.follows
  /\ clearing.visited # {}
  /\ history.discarded # {}
  /\ inflight = {}
  /\ \A c \in DOMAIN buckets : buckets[c] = <<>>

\* C19: one search reads the descriptions from one snapshot.  While the
\* traversal is under way the read lock is held and no writer is inside, so
\* every result pushed so far carries the description that is stored now;
\* and in a returned collection all results with the same name and kind
\* carry the same description, all absent or all the same value, also when
\* a describe call arrived during the search.
C19_OneSnapshot ==
  /\ searching.active =>
       /\ lock.readers > 0
       /\ ~lock.writer
       /\ \A i \in 1..Len(searching.results) :
            searching.results[i].description
              = get_description(DescriptionKeyFrom(searching.results[i].key))
  /\ ret.op \in {"all_metrics", "fuzzy_search_by_name"} =>
       \A i, j \in 1..Len(ret.results) :
         DescriptionKeyFrom(ret.results[i].key) = DescriptionKeyFrom(ret.results[j].key)
           => ret.results[i].description = ret.results[j].description

\* all_metrics has returned the two variants of a counter name, both without
\* a description, while a describe call for that name was waiting for the
\* lock.
C19_Witness ==
  /\ ret.op = "all_metrics"
  /\ \E d \in ret.waiting : d.key = DescriptionKey(Name1, "Counter")
  /\ \E i, j \in 1..Len(ret.results) :
       /\ ret.results[i].key = MetricKey(KeyA, "Counter")
       /\ ret.results[j].key = MetricKey(KeyB, "Counter")
       /\ ret.results[i].description = None
       /\ ret.results[j].description = None

\* The identities a result collection holds.
Reported(results) == {results[i].key : i \in 1..Len(results)}

\* C20: the registry only grows.  No step of a public operation takes an
\* identity out of the maps or a description out of the description map or
\* changes a stored description; a result of all_metrics() holds exactly the
\* identities registered when it is made, each with its kind; so an identity
\* that was in a result of all_metrics() is registered ever after and is,
\* with the same kind, in every later result of all_metrics().
C20_OnlyGrows ==
  [][ /\ Registered \subseteq Registered'
      /\ \A k \in DOMAIN descriptions :
           k \in DOMAIN descriptions' /\ descriptions'[k] = descriptions[k]
      /\ ret.op = "all_metrics" => Reported(ret.results) \subseteq Registered'
      /\ ret'.op = "all_metrics" =>
           /\ Reported(ret'.results) = Registered'
           /\ Registered \subseteq Reported(ret'.results)
           /\ ret.op = "all_metrics" =>
                Reported(ret.results) \subseteq Reported(ret'.results) ]_vars

\* all_metrics has returned three identities, one of them a histogram that
\* clear_atomic_buckets has passed, with two descriptions stored.
C20_Witness ==
  /\ ret.op = "all_metrics"
  /\ Len(ret.results) = 3
  /\ \E i \in 1..Len(ret.results) : ret.results[i].key.kind = "Histogram"
  /\ Cardinality(DOMAIN descriptions) = 2

====
